---------------------------- MODULE Spec2Model ----------------------------
(***************************************************************************)
(* Model of docs/conf.py, the Sphinx configuration module of OpenGSLB.     *)
(*                                                                         *)
(* Loading the module executes its thirteen top-level assignment           *)
(* statements in order, each binding one name in the module namespace.     *)
(* The documentation builder then reads the loaded namespace: the          *)
(* linkcheck builder matches every URI against linkcheck_ignore with       *)
(* re.match, and document discovery matches every path against             *)
(* exclude_patterns.                                                       *)
(*                                                                         *)
(* Strings that are only compared are TLA+ strings.  Strings that are      *)
(* matched character by character (patterns, suffixes, document names,     *)
(* URIs, paths) are sequences of one-character strings.                    *)
(***************************************************************************)
EXTENDS Integers, Sequences, FiniteSets, TLC

VARIABLES
    env,      \* env[l]: the packages installed where load l runs
    pc,       \* pc[l]: number of statements load l has executed
    status,   \* status[l]: "loading", "loaded" or "error"
    ns,       \* ns[l]: the module namespace of load l (name -> value)
    probe     \* the item the builder is deciding, with its verdict

vars == <<env, pc, status, ns, probe>>

Range(s) == {s[i] : i \in 1..Len(s)}

(***************************************************************************)
(* The values bound by docs/conf.py, one definition per assignment.        *)
(***************************************************************************)
project == "OpenGSLB"

copyright == "2025, Logan Ross"

author == "Logan Ross"

extensions_without_myst ==
    <<"sphinx.ext.autodoc", "sphinx.ext.viewcode", "sphinx_copybutton",
      "sphinx_design">>

extensions ==
    <<"myst_parser", "sphinx.ext.autodoc", "sphinx.ext.viewcode",
      "sphinx_copybutton", "sphinx_design">>

myst_enable_extensions_no_tasklist ==
    <<"colon_fence", "deflist", "fieldlist", "html_admonition", "html_image",
      "replacements", "smartquotes", "strikethrough", "substitution">>

myst_enable_extensions ==
    <<"colon_fence", "deflist", "fieldlist", "html_admonition", "html_image",
      "replacements", "smartquotes", "strikethrough", "substitution",
      "tasklist">>

myst_heading_anchors == 3

source_suffix_with_txt ==
    (<<".", "r", "s", "t">> :> "restructuredtext")
        @@ (<<".", "m", "d">> :> "markdown")
        @@ (<<".", "t", "x", "t">> :> "markdown")

source_suffix ==
    (<<".", "r", "s", "t">> :> "restructuredtext")
        @@ (<<".", "m", "d">> :> "markdown")

master_doc == <<"i", "n", "d", "e", "x">>

exclude_patterns_with_readme ==
    << <<"_", "b", "u", "i", "l", "d">>,
       <<"T", "h", "u", "m", "b", "s", ".", "d", "b">>,
       <<".", "D", "S", "_", "S", "t", "o", "r", "e">>,
       <<"R", "E", "A", "D", "M", "E", ".", "m", "d">> >>

exclude_patterns ==
    << <<"_", "b", "u", "i", "l", "d">>,
       <<"T", "h", "u", "m", "b", "s", ".", "d", "b">>,
       <<".", "D", "S", "_", "S", "t", "o", "r", "e">> >>

html_theme == "sphinx_rtd_theme"

html_theme_options_logo_only ==
    [navigation_depth |-> 4,
     collapse_navigation |-> FALSE,
     sticky_navigation |-> TRUE,
     includehidden |-> TRUE,
     titles_only |-> FALSE,
     logo_only |-> TRUE]

html_theme_options ==
    [navigation_depth |-> 4,
     collapse_navigation |-> FALSE,
     sticky_navigation |-> TRUE,
     includehidden |-> TRUE,
     titles_only |-> FALSE]

\* r'https?://localhost.*', r'https?://127\.0\.0\.1.*'
linkcheck_ignore_any_http ==
    << <<"h", "t", "t", "p", "s", "?", ":", "/", "/",
         "l", "o", "c", "a", "l", "h", "o", "s", "t", ".", "*">>,
       <<"h", "t", "t", "p", "s", "?", ":", "/", "/",
         "1", "2", "7", "\\", ".", "0", "\\", ".", "0", "\\", ".", "1",
         ".", "*">> >>

\* r'http://localhost.*', r'http://127.0.0.1.*' (dots left unescaped)
linkcheck_ignore_unescaped ==
    << <<"h", "t", "t", "p", ":", "/", "/",
         "l", "o", "c", "a", "l", "h", "o", "s", "t", ".", "*">>,
       <<"h", "t", "t", "p", ":", "/", "/",
         "1", "2", "7", ".", "0", ".", "0", ".", "1", ".", "*">> >>

\* r'http://localhost.*', r'http://127\.0\.0\.1.*'
linkcheck_ignore ==
    << <<"h", "t", "t", "p", ":", "/", "/",
         "l", "o", "c", "a", "l", "h", "o", "s", "t", ".", "*">>,
       <<"h", "t", "t", "p", ":", "/", "/",
         "1", "2", "7", "\\", ".", "0", "\\", ".", "0", "\\", ".", "1",
         ".", "*">> >>

suppress_warnings == <<"myst.header", "ref.myst">>

(***************************************************************************)
(* The module body: the assigned names in statement order.                 *)
(***************************************************************************)
Statements ==
    <<"project", "copyright", "author", "extensions",
      "myst_enable_extensions", "myst_heading_anchors", "source_suffix",
      "master_doc", "exclude_patterns", "html_theme", "html_theme_options",
      "linkcheck_ignore", "suppress_warnings">>

Done == Len(Statements)

\* The packages the configuration names and that may or may not be installed.
Packages == {"sphinx_rtd_theme", "myst_parser"}

\* The two loads of the module that are compared with each other.
Loads == {"first", "second"}

\* Exec with the extension list filtered by what is importable.
ExecInstalledOnly(name, e) ==
    CASE name = "project" -> project
      [] name = "copyright" -> copyright
      [] name = "author" -> author
      [] name = "extensions" ->
            IF "myst_parser" \in e THEN extensions
            ELSE extensions_without_myst
      [] name = "myst_enable_extensions" -> myst_enable_extensions
      [] name = "myst_heading_anchors" -> myst_heading_anchors
      [] name = "source_suffix" -> source_suffix
      [] name = "master_doc" -> master_doc
      [] name = "exclude_patterns" -> exclude_patterns
      [] name = "html_theme" -> html_theme
      [] name = "html_theme_options" -> html_theme_options
      [] name = "linkcheck_ignore" -> linkcheck_ignore
      [] name = "suppress_warnings" -> suppress_warnings

\* The value the statement assigning `name` evaluates to in environment e:
\* every right-hand side is a literal, so e is not read.
Exec(name, e) ==
    CASE name = "project" -> project
      [] name = "copyright" -> copyright
      [] name = "author" -> author
      [] name = "extensions" -> extensions
      [] name = "myst_enable_extensions" -> myst_enable_extensions
      [] name = "myst_heading_anchors" -> myst_heading_anchors
      [] name = "source_suffix" -> source_suffix
      [] name = "master_doc" -> master_doc
      [] name = "exclude_patterns" -> exclude_patterns
      [] name = "html_theme" -> html_theme
      [] name = "html_theme_options" -> html_theme_options
      [] name = "linkcheck_ignore" -> linkcheck_ignore
      [] name = "suppress_warnings" -> suppress_warnings

\* Raises with the theme package imported by the html_theme statement.
RaisesOnMissingTheme(name, e) ==
    name = "html_theme" /\ "sphinx_rtd_theme" \notin e

\* Whether the statement assigning `name` raises in environment e: the module
\* has no import, no raise, no call and no condition, so no statement does.
Raises(name, e) == FALSE

(***************************************************************************)
(* Python's re.match for the pattern syntax linkcheck_ignore uses: a       *)
(* literal character, a backslash-escaped character, '.' (any character    *)
(* but a newline), each optionally followed by '*' or '?'.  The match is   *)
(* anchored at the start of the string and may end anywhere in it.         *)
(***************************************************************************)
RECURSIVE ReMatchAt(_, _, _, _)
ReMatchAt(p, i, s, j) ==
    IF i > Len(p) THEN TRUE
    ELSE LET esc == p[i] = "\\" /\ i < Len(p)
             q == IF esc THEN i + 2 ELSE i + 1
             AtomAt(k) ==
                 /\ k <= Len(s)
                 /\ IF esc THEN s[k] = p[i + 1]
                    ELSE IF p[i] = "." THEN s[k] # "\n"
                    ELSE s[k] = p[i]
         IN  IF q <= Len(p) /\ p[q] = "*"
             THEN \E n \in 0..(Len(s) - j + 1) :
                      /\ \A k \in j..(j + n - 1) : AtomAt(k)
                      /\ ReMatchAt(p, q + 1, s, j + n)
             ELSE IF q <= Len(p) /\ p[q] = "?"
             THEN \/ AtomAt(j) /\ ReMatchAt(p, q + 1, s, j + 1)
                  \/ ReMatchAt(p, q + 1, s, j)
             ELSE AtomAt(j) /\ ReMatchAt(p, q, s, j + 1)

ReMatch(p, s) == ReMatchAt(p, 1, s, 1)

\* The linkcheck builder skips a URI that one of the ignore patterns matches.
LinkIgnored(patterns, uri) ==
    \E i \in 1..Len(patterns) : ReMatch(patterns[i], uri)

(***************************************************************************)
(* Glob matching of a whole path against one exclude pattern: '*' and '?'  *)
(* stand for characters other than '/', every other character for itself.  *)
(* The three configured patterns are literal names; '**' and character     *)
(* classes, which none of them uses, are not modelled.                     *)
(***************************************************************************)
RECURSIVE GlobMatchAt(_, _, _, _)
GlobMatchAt(p, i, s, j) ==
    IF i > Len(p) THEN j > Len(s)
    ELSE IF p[i] = "*"
    THEN \E n \in 0..(Len(s) - j + 1) :
             /\ \A k \in j..(j + n - 1) : s[k] # "/"
             /\ GlobMatchAt(p, i + 1, s, j + n)
    ELSE /\ j <= Len(s)
         /\ IF p[i] = "?" THEN s[j] # "/" ELSE s[j] = p[i]
         /\ GlobMatchAt(p, i + 1, s, j + 1)

GlobMatch(p, s) == GlobMatchAt(p, 1, s, 1)

\* A path is skipped when a pattern matches it or a directory above it.
Excluded(patterns, path) ==
    \E i \in 1..Len(patterns) :
        \E k \in 1..Len(path) :
            /\ k = Len(path) \/ path[k + 1] = "/"
            /\ GlobMatch(patterns[i], SubSeq(path, 1, k))

\* The parser identifiers an extension registers; 'restructuredtext' is the
\* builder's own.
Provides(ext) == IF ext = "myst_parser" THEN {"markdown"} ELSE {}

(***************************************************************************)
(* The URIs and paths the builder meets.                                   *)
(***************************************************************************)
MaxSegments == 1

Http == <<"h", "t", "t", "p">>

Schemes == {Http, <<"h", "t", "t", "p", "s">>, <<"f", "t", "p">>}

UserInfos == {<<>>, <<"u", "s", "e", "r", "@">>}

Localhost == <<"l", "o", "c", "a", "l", "h", "o", "s", "t">>

Loopback == <<"1", "2", "7", ".", "0", ".", "0", ".", "1">>

Hosts ==
    {Localhost, Loopback,
     <<"l", "o", "c", "a", "l", "h", "o", "s", "t", ".",
       "e", "x", "a", "m", "p", "l", "e", ".", "c", "o", "m">>,
     <<"1", "2", "7", ".", "0", ".", "0", ".", "1", "0">>,
     <<"1", "2", "7", "x", "0", "x", "0", "x", "1">>,
     <<"e", "x", "a", "m", "p", "l", "e", ".", "c", "o", "m">>}

Ports == {<<>>, <<":", "8", "0", "8", "0">>}

Queries == {<<>>, <<"?", "q", "=", "1">>}

RECURSIVE PathOf(_)
PathOf(n) == IF n = 0 THEN <<>> ELSE <<"/", "a">> \o PathOf(n - 1)

Uris ==
    [scheme : Schemes, userinfo : UserInfos, host : Hosts, port : Ports,
     path : {PathOf(n) : n \in 0..MaxSegments}, query : Queries]

UriText(u) ==
    u.scheme \o <<":", "/", "/">> \o u.userinfo \o u.host \o u.port
        \o u.path \o u.query

Dirs == {<<>>, <<"_", "b", "u", "i", "l", "d", "/">>,
         <<"g", "u", "i", "d", "e", "/">>}

\* The files of the root document under the configured suffixes.
RootFiles(n) == {n.master_doc \o sfx : sfx \in DOMAIN n.source_suffix}

Files(n) ==
    RootFiles(n) \cup
        {n.master_doc,
         <<"T", "h", "u", "m", "b", "s", ".", "d", "b">>,
         <<".", "D", "S", "_", "S", "t", "o", "r", "e">>,
         <<"R", "E", "A", "D", "M", "E", ".", "m", "d">>}

NoProbe ==
    [kind |-> "none", text |-> <<>>, scheme |-> <<>>, host |-> <<>>,
     userinfo |-> <<>>, verdict |-> FALSE]

Init ==
    /\ env \in [Loads -> SUBSET Packages]
    /\ pc = [l \in Loads |-> 0]
    /\ status = [l \in Loads |-> "loading"]
    /\ ns = [l \in Loads |-> [n \in {} |-> n]]
    /\ probe = NoProbe

\* Load l executes its next statement: the name is bound (or rebound) in the
\* namespace, or the statement raises and the load stops.
LoadStep(l) ==
    /\ status[l] = "loading"
    /\ pc[l] < Done
    /\ LET name == Statements[pc[l] + 1] IN
         IF Raises(name, env[l])
         THEN /\ status' = [status EXCEPT ![l] = "error"]
              /\ UNCHANGED <<pc, ns>>
         ELSE /\ ns' = [ns EXCEPT ![l] = (name :> Exec(name, env[l])) @@ @]
              /\ pc' = [pc EXCEPT ![l] = @ + 1]
              /\ status' = [status EXCEPT
                               ![l] = IF pc[l] + 1 = Done THEN "loaded"
                                      ELSE "loading"]
    /\ UNCHANGED <<env, probe>>

LoadNext == \E l \in Loads : LoadStep(l)

\* The module loaded on its own, every load running to its end.
LoadSpec ==
    /\ Init
    /\ [][LoadNext]_vars
    /\ \A l \in Loads : WF_vars(LoadStep(l))

\* The linkcheck builder decides whether URI u is validated.
CheckLink(l, u) ==
    /\ status[l] = "loaded"
    /\ probe = NoProbe
    /\ probe' = [kind |-> "link", text |-> UriText(u), scheme |-> u.scheme,
                 host |-> u.host, userinfo |-> u.userinfo,
                 verdict |-> LinkIgnored(ns[l].linkcheck_ignore, UriText(u))]
    /\ UNCHANGED <<env, pc, status, ns>>

\* Document discovery decides whether a file of the source tree is skipped.
DiscoverDoc(l) ==
    /\ status[l] = "loaded"
    /\ probe = NoProbe
    /\ \E d \in Dirs : \E f \in Files(ns[l]) :
           probe' = [kind |-> "doc", text |-> d \o f, scheme |-> <<>>,
                     host |-> <<>>, userinfo |-> <<>>,
                     verdict |-> Excluded(ns[l].exclude_patterns, d \o f)]
    /\ UNCHANGED <<env, pc, status, ns>>

\* The builder records its verdict and turns to the next item.
Report ==
    /\ probe # NoProbe
    /\ probe' = NoProbe
    /\ UNCHANGED <<env, pc, status, ns>>

Next ==
    \/ \E l \in Loads : LoadStep(l)
    \/ \E l \in Loads : \E u \in Uris : CheckLink(l, u)
    \/ \E l \in Loads : DiscoverDoc(l)
    \/ Report

Spec == Init /\ [][Next]_vars


(***************************************************************************)
(* Properties.                                                             *)
(***************************************************************************)
Loaded(l) == status[l] = "loaded"

IsPrefix(p, s) == Len(p) <= Len(s) /\ SubSeq(s, 1, Len(p)) = p

\* C1: once the module is loaded, source_suffix has exactly the two keys
\* '.rst' and '.md', mapped to 'restructuredtext' and 'markdown'.
C1_SourceSuffixTwoEntries ==
    \A l \in Loads :
        Loaded(l) =>
            /\ DOMAIN ns[l].source_suffix =
                   {<<".", "r", "s", "t">>, <<".", "m", "d">>}
            /\ ns[l].source_suffix[<<".", "r", "s", "t">>] = "restructuredtext"
            /\ ns[l].source_suffix[<<".", "m", "d">>] = "markdown"

C1_Witness ==
    \E l \in Loads :
        Loaded(l) /\ Cardinality(DOMAIN ns[l].source_suffix) = 2

\* The nine markdown features the specification names.
NamedFeatures ==
    {"deflist", "fieldlist", "html_admonition", "html_image", "replacements",
     "smartquotes", "strikethrough", "substitution", "tasklist"}

\* C2 as stated: the enabled markdown extensions are exactly the nine named
\* features.
C2_Original ==
    \A l \in Loads :
        Loaded(l) => Range(ns[l].myst_enable_extensions) = NamedFeatures

\* C2 as amended: the enabled markdown extensions are the nine named features
\* and colon_fence, and nothing else.
C2_NamedFeaturesAndColonFence ==
    \A l \in Loads :
        Loaded(l) =>
            Range(ns[l].myst_enable_extensions) =
                NamedFeatures \cup {"colon_fence"}

C2_Witness ==
    \E l \in Loads :
        /\ Loaded(l)
        /\ "colon_fence" \in Range(ns[l].myst_enable_extensions)
        /\ NamedFeatures \subseteq Range(ns[l].myst_enable_extensions)

\* C3 as stated: a URI is ignored by linkcheck exactly when its host is
\* localhost or 127.0.0.1.
C3_Original ==
    probe.kind = "link" =>
        (probe.verdict <=> probe.host \in {Localhost, Loopback})

\* C3 as amended: a URI is ignored by linkcheck exactly when its text begins
\* with 'http://localhost' or 'http://127.0.0.1'.
C3_IgnoredIffHttpLoopbackPrefix ==
    probe.kind = "link" =>
        (probe.verdict <=>
            \/ IsPrefix(Http \o <<":", "/", "/">> \o Localhost, probe.text)
            \/ IsPrefix(Http \o <<":", "/", "/">> \o Loopback, probe.text))

C3_Witness ==
    /\ probe.kind = "link"
    /\ probe.verdict
    /\ probe.host \notin {Localhost, Loopback}

\* C4: once the module is loaded, the theme is 'sphinx_rtd_theme' and its
\* options are exactly the five recognized keys, navigation_depth the
\* integer 4 and the four others booleans with the configured values.
C4_ThemeOptions ==
    \A l \in Loads :
        Loaded(l) =>
            /\ ns[l].html_theme = "sphinx_rtd_theme"
            /\ DOMAIN ns[l].html_theme_options =
                   {"navigation_depth", "collapse_navigation",
                    "sticky_navigation", "includehidden", "titles_only"}
            /\ ns[l].html_theme_options.navigation_depth \in Int
            /\ ns[l].html_theme_options.navigation_depth = 4
            /\ \A k \in {"collapse_navigation", "sticky_navigation",
                         "includehidden", "titles_only"} :
                   ns[l].html_theme_options[k] \in BOOLEAN
            /\ ns[l].html_theme_options.collapse_navigation = FALSE
            /\ ns[l].html_theme_options.sticky_navigation = TRUE
            /\ ns[l].html_theme_options.includehidden = TRUE
            /\ ns[l].html_theme_options.titles_only = FALSE

C4_Witness ==
    \E l \in Loads :
        /\ Loaded(l)
        /\ "sphinx_rtd_theme" \notin env[l]
        /\ Cardinality(DOMAIN ns[l].html_theme_options) = 5

\* C5: at every step, any two loads agree on every name both have bound,
\* whatever their environments and interleaving, and a loaded namespace
\* never changes again.
C5_LoadsAgreeAndStayFixed ==
    [][/\ \A a, b \in Loads :
              \A n \in DOMAIN ns'[a] \cap DOMAIN ns'[b] :
                  ns'[a][n] = ns'[b][n]
       /\ \A l \in Loads :
              Loaded(l) => ns'[l] = ns[l] /\ status'[l] = "loaded"]_vars

C5_Witness ==
    /\ \A l \in Loads : Loaded(l)
    /\ env["first"] = {}
    /\ env["second"] = Packages
    /\ ns["first"] = ns["second"]
    /\ probe.kind = "link"

\* C6: no load ever ends in an error, and every load runs to its end with
\* all thirteen names bound, whichever packages are installed.
C6_LoadNeverFails ==
    /\ [](\A l \in Loads : status[l] # "error")
    /\ \A l \in Loads :
           <>(Loaded(l) /\ DOMAIN ns[l] = Range(Statements))

C6_Witness ==
    \E l \in Loads :
        /\ Loaded(l)
        /\ env[l] = {}
        /\ DOMAIN ns[l] = Range(Statements)

\* C7: once the module is loaded, the exclude patterns are exactly '_build',
\* 'Thumbs.db' and '.DS_Store', and the suppressed warnings are exactly
\* 'myst.header' and 'ref.myst'.
C7_ExcludesAndSuppressions ==
    \A l \in Loads :
        Loaded(l) =>
            /\ Range(ns[l].exclude_patterns) =
                   {<<"_", "b", "u", "i", "l", "d">>,
                    <<"T", "h", "u", "m", "b", "s", ".", "d", "b">>,
                    <<".", "D", "S", "_", "S", "t", "o", "r", "e">>}
            /\ Range(ns[l].suppress_warnings) = {"myst.header", "ref.myst"}

C7_Witness ==
    /\ probe.kind = "doc"
    /\ probe.text = <<"T", "h", "u", "m", "b", "s", ".", "d", "b">>
    /\ probe.verdict

\* C8: a URI whose scheme is not 'http' is never ignored by linkcheck.
C8_OnlyPlainHttpIgnored ==
    probe.kind = "link" /\ probe.scheme # Http => ~probe.verdict

C8_Witness ==
    /\ probe.kind = "link"
    /\ probe.scheme = <<"h", "t", "t", "p", "s">>
    /\ probe.userinfo = <<>>
    /\ probe.host \in {Localhost, Loopback}
    /\ ~probe.verdict

\* C9: once the module is loaded, the root document and its source files
\* match no exclude pattern, discovery never skips them, and every parser
\* in source_suffix other than 'restructuredtext' is registered by one of
\* the listed extensions.
C9_RootKeptAndParsersProvided ==
    \A l \in Loads :
        Loaded(l) =>
            /\ \A f \in RootFiles(ns[l]) \cup {ns[l].master_doc} :
                   /\ ~Excluded(ns[l].exclude_patterns, f)
                   /\ probe.kind = "doc" /\ probe.text = f => ~probe.verdict
            /\ \A sfx \in DOMAIN ns[l].source_suffix :
                   \/ ns[l].source_suffix[sfx] = "restructuredtext"
                   \/ \E i \in 1..Len(ns[l].extensions) :
                          ns[l].source_suffix[sfx]
                              \in Provides(ns[l].extensions[i])

C9_Witness ==
    /\ probe.kind = "doc"
    /\ probe.text = <<"i", "n", "d", "e", "x", ".", "m", "d">>
    /\ ~probe.verdict

=============================================================================
